---- MODULE Spec2Model ----
(***************************************************************************)
(* Address book of main.py: the field value types (Phone, Birthday), the   *)
(* Record and AddressBook classes, the input_error decorator, the command  *)
(* handlers and the command loop of main().                                *)
(*                                                                         *)
(* A Python str is a sequence of characters; a character is a one-element  *)
(* name ("1", "a", "."), and "U+00B2" stands for the character SUPERSCRIPT *)
(* TWO, for which str.isdigit() is True although it is not one of 0-9.     *)
(* A date is a record [year, month, day].                                  *)
(***************************************************************************)
EXTENDS Integers, Sequences, FiniteSets, TLC

VARIABLES data, last, session

vars == <<data, last, session>>

----------------------------------------------------------------------------
(* Bounds of the model *)

\* longest string given to the phone operations
MaxStrLen == 11
\* most phones a record is grown to by add_phone
MaxPhones == 3
\* most phones a contact is grown to by the add command
MaxContactPhones == 1
\* most arguments of a command line
MaxArgs == 3
\* first year the clock is read in, and the number of years it runs over
BaseYear == 2023
NumYears == 2

----------------------------------------------------------------------------
(* Strings *)

\* the length Phone.__init__ requires
PhoneLen == 10

AsciiDigits == <<"0", "1", "2", "3", "4", "5", "6", "7", "8", "9">>

IsAsciiDigit(c) == \E i \in 1..10 : AsciiDigits[i] = c

\* the characters of the model for which str.isdigit() is True
CharIsDigit(c) == IsAsciiDigit(c) \/ c = "U+00B2"

\* str.isdigit(): every character is a digit and there is at least one
isdigit(s) == Len(s) > 0 /\ \A i \in 1..Len(s) : CharIsDigit(s[i])

\* c * n
Rep(c, n) == [i \in 1..n |-> c]

\* int() of an ASCII digit
DigitVal(c) == (CHOOSE i \in 1..10 : AsciiDigits[i] = c) - 1

DigitChar(n) == AsciiDigits[n + 1]

----------------------------------------------------------------------------
(* datetime.date *)

None == [year |-> 0, month |-> 0, day |-> 0]

MkDate(y, m, d) == [year |-> y, month |-> m, day |-> d]

IsLeap(y) == y % 4 = 0 /\ (y % 100 # 0 \/ y % 400 = 0)

DaysInMonth(y, m) ==
    IF m = 2 THEN (IF IsLeap(y) THEN 29 ELSE 28)
    ELSE IF m \in {4, 6, 9, 11} THEN 30 ELSE 31

\* the check of the date constructor
ValidDate(y, m, d) ==
    /\ y \in 1..9999
    /\ m \in 1..12
    /\ d \in 1..DaysInMonth(y, m)

RECURSIVE DaysBeforeMonth(_, _)
DaysBeforeMonth(y, m) ==
    IF m = 1 THEN 0 ELSE DaysBeforeMonth(y, m - 1) + DaysInMonth(y, m - 1)

DaysBeforeYear(y) ==
    (y - 1) * 365 + ((y - 1) \div 4) - ((y - 1) \div 100) + ((y - 1) \div 400)

\* date.toordinal(): 1 is 0001-01-01
ToOrdinal(d) == DaysBeforeYear(d.year) + DaysBeforeMonth(d.year, d.month) + d.day

\* date.weekday(): Monday is 0, Saturday 5, Sunday 6
Weekday(d) == (ToOrdinal(d) + 6) % 7

\* date < date
DateLT(a, b) ==
    \/ a.year < b.year
    \/ a.year = b.year /\ a.month < b.month
    \/ a.year = b.year /\ a.month = b.month /\ a.day < b.day

DateLE(a, b) == a = b \/ DateLT(a, b)

NextDay(d) ==
    IF d.day < DaysInMonth(d.year, d.month) THEN MkDate(d.year, d.month, d.day + 1)
    ELSE IF d.month < 12 THEN MkDate(d.year, d.month + 1, 1)
    ELSE MkDate(d.year + 1, 1, 1)

\* date + timedelta(days=k), k >= 0
RECURSIVE AddDays(_, _)
AddDays(d, k) == IF k = 0 THEN d ELSE AddDays(NextDay(d), k - 1)

\* date.replace(year=y) raises ValueError when the day does not exist in y
ReplaceRaises(d, y) == ~ValidDate(y, d.month, d.day)

ReplaceYear(d, y) == MkDate(y, d.month, d.day)

\* strftime("%d.%m.%Y")
Two(n) == <<DigitChar(n \div 10), DigitChar(n % 10)>>

strftime(d) ==
    Two(d.day) \o <<".">> \o Two(d.month) \o <<".">>
        \o Two(d.year \div 100) \o Two(d.year % 100)

\* the decimal value of a string of ASCII digits
RECURSIVE IntOf(_)
IntOf(s) ==
    IF Len(s) = 0 THEN 0
    ELSE 10 * IntOf(SubSeq(s, 1, Len(s) - 1)) + DigitVal(s[Len(s)])

AllAscii(s) == Len(s) > 0 /\ \A i \in 1..Len(s) : IsAsciiDigit(s[i])

\* the positions of "." in s
Dots(s) == {i \in 1..Len(s) : s[i] = "."}

\* datetime.strptime(s, "%d.%m.%Y"): day and month of one or two digits,
\* a year of four, nothing else, and a date of the calendar
StrptimeFields(s) ==
    LET i == CHOOSE k \in Dots(s) : \A j \in Dots(s) : k <= j
        j == CHOOSE k \in Dots(s) : \A l \in Dots(s) : l <= k
    IN  <<SubSeq(s, 1, i - 1), SubSeq(s, i + 1, j - 1), SubSeq(s, j + 1, Len(s))>>

StrptimeOk(s) ==
    /\ Cardinality(Dots(s)) = 2
    /\ LET f == StrptimeFields(s)
       IN  /\ AllAscii(f[1]) /\ Len(f[1]) <= 2
           /\ AllAscii(f[2]) /\ Len(f[2]) <= 2
           /\ AllAscii(f[3]) /\ Len(f[3]) = 4
           /\ ValidDate(IntOf(f[3]), IntOf(f[2]), IntOf(f[1]))

strptime(s) ==
    LET f == StrptimeFields(s)
    IN  MkDate(IntOf(f[3]), IntOf(f[2]), IntOf(f[1]))

----------------------------------------------------------------------------
(* Exceptions and return values *)

NoExc == [type |-> "none", msg |-> ""]

ValueError(msg) == [type |-> "ValueError", msg |-> msg]

KeyError(msg) == [type |-> "KeyError", msg |-> msg]

\* the texts of the program's messages, in English
PhoneFormatMsg == "The phone number must consist of 10 digits"
PhoneNotFoundMsg == "Phone not found in the record"
DateFormatMsg == "Invalid date format. Use DD.MM.YYYY"
UnpackMsg == "not enough values to unpack"
DayOutOfRangeMsg == "day is out of range for month"
NotEnoughArgsMsg == "Not enough arguments for the command."
ContactNotFoundMsg == "Contact not found."
NoBirthdayMsg == "Birthday not specified."
NoUpcomingMsg == "No birthdays in the coming week."

\* a returned value: a text and, for a listing, its items
Message(text) == [text |-> text, items |-> <<>>]

Listing(text, items) == [text |-> text, items |-> items]

NoReturn == Message("")

----------------------------------------------------------------------------
(* Phone, Birthday *)

\* Phone.__init__ raises ValueError
PhoneRaises(value) == ~isdigit(value) \/ Len(value) # PhoneLen

\* Birthday.__init__ raises ValueError
BirthdayRaises(value) == ~StrptimeOk(value)

\* Birthday.__str__
BirthdayStr(b) == strftime(b)

----------------------------------------------------------------------------
(* Record: [name, phones, birthday]; phones holds the values of the Phone  *)
(* objects in list order. Every Phone object is created by one add_phone   *)
(* or edit_phone call and stored once, so the object find_phone returns is *)
(* found by list.index and list.remove at the position find_phone saw it.  *)

Record(name) == [name |-> name, phones |-> <<>>, birthday |-> None]

\* Record.find_phone: the position of the first phone with that value, 0 for None
find_phone(rec, phone) ==
    IF \E i \in 1..Len(rec.phones) : rec.phones[i] = phone
    THEN CHOOSE i \in 1..Len(rec.phones) :
            /\ rec.phones[i] = phone
            /\ \A j \in 1..(i - 1) : rec.phones[j] # phone
    ELSE 0

RemoveAt(s, i) == SubSeq(s, 1, i - 1) \o SubSeq(s, i + 1, Len(s))

add_phone(rec, phone) ==
    IF PhoneRaises(phone)
    THEN [rec |-> rec, exc |-> ValueError(PhoneFormatMsg)]
    ELSE [rec |-> [rec EXCEPT !.phones = Append(@, phone)], exc |-> NoExc]

\* remove_phone removing the last phone of that value instead of the first
remove_phone_Last(rec, phone) ==
    LET phone_obj == find_phone(rec, phone)
        last_obj == CHOOSE i \in 1..Len(rec.phones) :
                        /\ rec.phones[i] = phone
                        /\ \A j \in (i + 1)..Len(rec.phones) : rec.phones[j] # phone
    IN  IF phone_obj # 0
        THEN [rec |-> [rec EXCEPT !.phones = RemoveAt(@, last_obj)], exc |-> NoExc]
        ELSE [rec |-> rec, exc |-> ValueError(PhoneNotFoundMsg)]

remove_phone(rec, phone) ==
    LET phone_obj == find_phone(rec, phone)
    IN  IF phone_obj # 0
        THEN [rec |-> [rec EXCEPT !.phones = RemoveAt(@, phone_obj)], exc |-> NoExc]
        ELSE [rec |-> rec, exc |-> ValueError(PhoneNotFoundMsg)]

edit_phone(rec, old_phone, new_phone) ==
    LET phone_obj == find_phone(rec, old_phone)
    IN  IF phone_obj # 0
        THEN IF PhoneRaises(new_phone)
             THEN [rec |-> rec, exc |-> ValueError(PhoneFormatMsg)]
             ELSE [rec |-> [rec EXCEPT !.phones[phone_obj] = new_phone], exc |-> NoExc]
        ELSE [rec |-> rec, exc |-> ValueError(PhoneNotFoundMsg)]

add_birthday(rec, birthday) ==
    IF BirthdayRaises(birthday)
    THEN [rec |-> rec, exc |-> ValueError(DateFormatMsg)]
    ELSE [rec |-> [rec EXCEPT !.birthday = strptime(birthday)], exc |-> NoExc]

----------------------------------------------------------------------------
(* AddressBook: data is the dict, the records in insertion order, one per  *)
(* key, the key of a record being its name.                                *)

Keys(book) == {book[i].name : i \in 1..Len(book)}

\* the position of the key, 0 when absent
IndexOf(book, name) ==
    IF name \in Keys(book)
    THEN CHOOSE i \in 1..Len(book) : book[i].name = name
    ELSE 0

\* AddressBook.find: the position of the record, 0 for None
find(book, name) == IndexOf(book, name)

\* AddressBook.add_record: an existing key keeps its place in the dict
add_record(book, record) ==
    IF IndexOf(book, record.name) # 0
    THEN [book EXCEPT ![IndexOf(book, record.name)] = record]
    ELSE Append(book, record)

\* delete without the test for the key: del raises KeyError
delete_Unguarded(book, name) ==
    IF name \in Keys(book)
    THEN [book |-> RemoveAt(book, IndexOf(book, name)), exc |-> NoExc]
    ELSE [book |-> book, exc |-> KeyError(name)]

\* AddressBook.delete
delete(book, name) ==
    IF name \in Keys(book)
    THEN [book |-> RemoveAt(book, IndexOf(book, name)), exc |-> NoExc]
    ELSE [book |-> book, exc |-> NoExc]

\* the weekend shift moving a Saturday by one day only
CongratulationDate_SaturdayPlusOne(bday_this_year) ==
    IF Weekday(bday_this_year) = 5 THEN AddDays(bday_this_year, 1)
    ELSE IF Weekday(bday_this_year) = 6 THEN AddDays(bday_this_year, 1)
    ELSE bday_this_year

\* the weekend shift of get_upcoming_birthdays
CongratulationDate(bday_this_year) ==
    IF Weekday(bday_this_year) = 5 THEN AddDays(bday_this_year, 2)
    ELSE IF Weekday(bday_this_year) = 6 THEN AddDays(bday_this_year, 1)
    ELSE bday_this_year

\* the body of the loop of get_upcoming_birthdays for one record with a
\* birthday: it raises, or yields the entries to append (none or one)
UpcomingOf(record, today) ==
    LET next_week == AddDays(today, 7)
        bday == record.birthday
    IN  IF ReplaceRaises(bday, today.year)
        THEN [exc |-> ValueError(DayOutOfRangeMsg), entries |-> <<>>]
        ELSE LET this_year == ReplaceYear(bday, today.year)
             IN  IF DateLT(this_year, today) /\ ReplaceRaises(this_year, today.year + 1)
                 THEN [exc |-> ValueError(DayOutOfRangeMsg), entries |-> <<>>]
                 ELSE LET bday_this_year ==
                              IF DateLT(this_year, today)
                              THEN ReplaceYear(this_year, today.year + 1)
                              ELSE this_year
                      IN  IF DateLE(today, bday_this_year) /\ DateLE(bday_this_year, next_week)
                          THEN [exc |-> NoExc,
                                entries |-> <<[name |-> record.name,
                                               congratulation_date |->
                                                   strftime(CongratulationDate(bday_this_year))]>>]
                          ELSE [exc |-> NoExc, entries |-> <<>>]

\* the loop of get_upcoming_birthdays from record i on, upcoming being the
\* list built so far
RECURSIVE UpcomingFrom(_, _, _, _)
UpcomingFrom(book, today, i, upcoming) ==
    IF i > Len(book) THEN [exc |-> NoExc, value |-> upcoming]
    ELSE IF book[i].birthday = None THEN UpcomingFrom(book, today, i + 1, upcoming)
    ELSE LET r == UpcomingOf(book[i], today)
         IN  IF r.exc # NoExc THEN [exc |-> r.exc, value |-> <<>>]
             ELSE UpcomingFrom(book, today, i + 1, upcoming \o r.entries)

\* AddressBook.get_upcoming_birthdays, today being date.today()
get_upcoming_birthdays(book, today) == UpcomingFrom(book, today, 1, <<>>)

----------------------------------------------------------------------------
(* The command handlers, before decoration: the book they leave, the       *)
(* exception they raise (NoExc for none) and the value they return.        *)

Raise(book, exc) == [book |-> book, exc |-> exc, ret |-> NoReturn]

Return(book, ret) == [book |-> book, exc |-> NoExc, ret |-> ret]

add_contact(args, book) ==
    IF Len(args) < 2 THEN Raise(book, ValueError(UnpackMsg))
    ELSE LET name == args[1]
             phone == args[2]
             isNew == find(book, name) = 0
             book1 == IF isNew THEN add_record(book, Record(name)) ELSE book
             message == IF isNew THEN "Contact added." ELSE "Contact updated."
             i == find(book1, name)
         IN  IF Len(phone) > 0
             THEN LET r == add_phone(book1[i], phone)
                  IN  IF r.exc # NoExc THEN Raise(book1, r.exc)
                      ELSE Return([book1 EXCEPT ![i] = r.rec], Message(message))
             ELSE Return(book1, Message(message))

change_contact(args, book) ==
    IF Len(args) < 3 THEN Raise(book, ValueError(UnpackMsg))
    ELSE LET name == args[1]
             i == find(book, name)
         IN  IF i = 0 THEN Raise(book, KeyError(name))
             ELSE LET r == edit_phone(book[i], args[2], args[3])
                  IN  IF r.exc # NoExc THEN Raise(book, r.exc)
                      ELSE Return([book EXCEPT ![i] = r.rec], Message("Contact updated."))

show_phone(args, book) ==
    IF Len(args) < 1 THEN Raise(book, ValueError(UnpackMsg))
    ELSE LET name == args[1]
             i == find(book, name)
         IN  IF i = 0 THEN Raise(book, KeyError(name))
             ELSE Return(book, Listing("phones", book[i].phones))

add_birthday_handler(args, book) ==
    IF Len(args) < 2 THEN Raise(book, ValueError(UnpackMsg))
    ELSE LET name == args[1]
             i == find(book, name)
         IN  IF i = 0 THEN Raise(book, KeyError(name))
             ELSE LET r == add_birthday(book[i], args[2])
                  IN  IF r.exc # NoExc THEN Raise(book, r.exc)
                      ELSE Return([book EXCEPT ![i] = r.rec], Message("Birthday added."))

show_birthday(args, book) ==
    IF Len(args) < 1 THEN Raise(book, ValueError(UnpackMsg))
    ELSE LET name == args[1]
             i == find(book, name)
         IN  IF i = 0 THEN Raise(book, KeyError(name))
             ELSE IF book[i].birthday = None THEN Return(book, Message(NoBirthdayMsg))
             ELSE Return(book, Listing("birthday", <<BirthdayStr(book[i].birthday)>>))

birthdays(args, book, today) ==
    LET r == get_upcoming_birthdays(book, today)
    IN  IF r.exc # NoExc THEN Raise(book, r.exc)
        ELSE IF r.value = <<>> THEN Return(book, Message(NoUpcomingMsg))
        ELSE Return(book, Listing("upcoming", r.value))

\* input_error without the except clause for KeyError
input_error_NoKeyError(r) ==
    IF r.exc = NoExc THEN [ret |-> r.ret, exc |-> NoExc]
    ELSE IF r.exc.type = "ValueError" THEN [ret |-> Message(r.exc.msg), exc |-> NoExc]
    ELSE IF r.exc.type = "IndexError" THEN [ret |-> Message(NotEnoughArgsMsg), exc |-> NoExc]
    ELSE [ret |-> NoReturn, exc |-> r.exc]

\* input_error: what the decorated handler does with the outcome r of the
\* handler: the value returned, or the exception let through
input_error(r) ==
    IF r.exc = NoExc THEN [ret |-> r.ret, exc |-> NoExc]
    ELSE IF r.exc.type = "ValueError" THEN [ret |-> Message(r.exc.msg), exc |-> NoExc]
    ELSE IF r.exc.type = "IndexError" THEN [ret |-> Message(NotEnoughArgsMsg), exc |-> NoExc]
    ELSE IF r.exc.type = "KeyError" THEN [ret |-> Message(ContactNotFoundMsg), exc |-> NoExc]
    ELSE [ret |-> NoReturn, exc |-> r.exc]

----------------------------------------------------------------------------
(* Inputs *)

Alice == <<"A", "l", "i", "c", "e">>
Bob == <<"B", "o", "b">>

Names == {Alice, Bob}

Alphabet == {"1", "a", "U+00B2"}

StrLens == {0} \cup ((PhoneLen - 1)..MaxStrLen)

\* the strings given to add_phone, remove_phone and edit_phone
PhoneStrs ==
    {Rep(c, n) : c \in Alphabet, n \in StrLens}
        \cup {Rep("1", PhoneLen - 1) \o <<c>> : c \in {"2", "a"}}

Years == BaseYear..(BaseYear + NumYears - 1)

\* the values of date.today(): the days around the turn of the year and
\* around the end of February
Todays ==
    {t \in [year : Years, month : {1, 2, 3, 12}, day : 1..31] :
        /\ ValidDate(t.year, t.month, t.day)
        /\ \/ t.month = 12 /\ t.day >= 22
           \/ t.month = 1 /\ t.day <= 3
           \/ t.month = 2 /\ t.day >= 15
           \/ t.month = 3 /\ t.day <= 5}

\* the strings given to Record.add_birthday
BirthdayStrs ==
    {strftime(MkDate(2000, 2, 29)), strftime(MkDate(1990, 1, 1)),
     strftime(MkDate(1985, 12, 31)), strftime(MkDate(1995, 3, 1)),
     strftime(MkDate(1992, 2, 25)), Rep("1", PhoneLen)}

\* the words of a command line after the command: a name, then values
Values ==
    {Rep("1", PhoneLen), Rep("2", PhoneLen), strftime(MkDate(2000, 2, 29))}

RECURSIVE ValueLists(_)
ValueLists(n) ==
    IF n = 0 THEN {<<>>}
    ELSE ValueLists(n - 1) \cup
         {Append(l, v) : l \in {x \in ValueLists(n - 1) : Len(x) = n - 1}, v \in Values}

ArgLists == {<<>>} \cup {<<n>> \o l : n \in Names, l \in ValueLists(MaxArgs - 1)}

\* the days the birthdays command is given on
CommandDays == {MkDate(y, 2, 25) : y \in Years}

----------------------------------------------------------------------------
(* State: data is the AddressBook, session the state of main(), last the   *)
(* operation that ran last: its arguments, the clock it read, the book     *)
(* before it, the exception raised inside it, what it returned, and the    *)
(* exception that left it                                                  *)

Last(op, args, today, pre, raised, ret, exc) ==
    [op |-> op, args |-> args, today |-> today, pre |-> pre,
     raised |-> raised, ret |-> ret, exc |-> exc]

NoLast == Last("none", <<>>, None, <<>>, NoExc, NoReturn, NoExc)

\* a call of a method of Record or AddressBook: an exception reaches the caller
Call(op, args, today, book, exc, ret) ==
    /\ data' = book
    /\ last' = Last(op, args, today, data, exc, ret, exc)
    /\ UNCHANGED session

ApiAddRecord(name) ==
    /\ name \notin Keys(data)
    /\ Call("add_record", <<name>>, None, add_record(data, Record(name)), NoExc, NoReturn)

ApiAddPhone(i, phone) ==
    /\ i \in 1..Len(data)
    /\ Len(data[i].phones) < MaxPhones
    /\ LET r == add_phone(data[i], phone)
       IN  Call("add_phone", <<data[i].name, phone>>, None,
                [data EXCEPT ![i] = r.rec], r.exc, NoReturn)

ApiRemovePhone(i, phone) ==
    /\ i \in 1..Len(data)
    /\ LET r == remove_phone(data[i], phone)
       IN  Call("remove_phone", <<data[i].name, phone>>, None,
                [data EXCEPT ![i] = r.rec], r.exc, NoReturn)

ApiEditPhone(i, old_phone, new_phone) ==
    /\ i \in 1..Len(data)
    /\ LET r == edit_phone(data[i], old_phone, new_phone)
       IN  Call("edit_phone", <<data[i].name, old_phone, new_phone>>, None,
                [data EXCEPT ![i] = r.rec], r.exc, NoReturn)

ApiAddBirthday(i, birthday) ==
    /\ i \in 1..Len(data)
    /\ LET r == add_birthday(data[i], birthday)
       IN  Call("add_birthday", <<data[i].name, birthday>>, None,
                [data EXCEPT ![i] = r.rec], r.exc, NoReturn)

ApiDelete(name) ==
    LET r == delete(data, name)
    IN  Call("delete", <<name>>, None, r.book, r.exc, NoReturn)

ApiGetUpcomingBirthdays(today) ==
    LET r == get_upcoming_birthdays(data, today)
    IN  Call("get_upcoming_birthdays", <<>>, today, data, r.exc,
             Listing("upcoming", r.value))

\* one turn of the loop of main() for a command with a handler: the
\* handler's message is printed, an exception it lets through ends main()
Command(op, args, today, r) ==
    /\ session = "running"
    /\ data' = r.book
    /\ last' = Last(op, args, today, data, r.exc, input_error(r).ret, input_error(r).exc)
    /\ session' = IF input_error(r).exc = NoExc THEN "running" ELSE "crashed"

CmdAdd(args) ==
    /\ \A i \in 1..Len(data) :
          (Len(args) > 0 /\ data[i].name = args[1]) => Len(data[i].phones) < MaxContactPhones
    /\ Command("add", args, None, add_contact(args, data))

CmdChange(args) == Command("change", args, None, change_contact(args, data))

CmdPhone(args) == Command("phone", args, None, show_phone(args, data))

CmdAddBirthday(args) == Command("add-birthday", args, None, add_birthday_handler(args, data))

CmdShowBirthday(args) == Command("show-birthday", args, None, show_birthday(args, data))

CmdBirthdays(args, today) == Command("birthdays", args, today, birthdays(args, data, today))

\* hello, all and an unknown command print and change nothing
CmdPrint(op) ==
    /\ session = "running"
    /\ last' = Last(op, <<>>, None, data, NoExc, NoReturn, NoExc)
    /\ UNCHANGED <<data, session>>

\* close, exit: the book is saved and the loop left
CmdClose ==
    /\ session = "running"
    /\ session' = "closed"
    /\ last' = Last("close", <<>>, None, data, NoExc, NoReturn, NoExc)
    /\ UNCHANGED data

----------------------------------------------------------------------------
(* Specifications *)

\* main(): the book of a first run, load_data() finding no file
Init ==
    /\ data = <<>>
    /\ last = NoLast
    /\ session = "running"

Next ==
    \/ \E args \in ArgLists : CmdAdd(args)
    \/ \E args \in ArgLists : CmdChange(args)
    \/ \E args \in ArgLists : CmdPhone(args)
    \/ \E args \in ArgLists : CmdAddBirthday(args)
    \/ \E args \in ArgLists : CmdShowBirthday(args)
    \/ \E args \in {<<>>, <<Alice>>}, today \in CommandDays : CmdBirthdays(args, today)
    \/ \E op \in {"hello", "all", "invalid"} : CmdPrint(op)
    \/ CmdClose

Spec == Init /\ [][Next]_vars

\* one Record and its phone methods
InitRec ==
    /\ data \in {<<Record(n)>> : n \in Names}
    /\ last = NoLast
    /\ session = "running"

NextRec ==
    \/ \E phone \in PhoneStrs : ApiAddPhone(1, phone)
    \/ \E phone \in PhoneStrs : ApiRemovePhone(1, phone)
    \/ \E old_phone \in PhoneStrs, new_phone \in PhoneStrs : ApiEditPhone(1, old_phone, new_phone)

SpecRec == InitRec /\ [][NextRec]_vars

\* an AddressBook of records with birthdays
InitBook ==
    /\ data = <<>>
    /\ last = NoLast
    /\ session = "running"

NextBook ==
    \/ \E name \in Names : ApiAddRecord(name)
    \/ \E i \in 1..Len(data), birthday \in BirthdayStrs : ApiAddBirthday(i, birthday)
    \/ \E name \in Names : ApiDelete(name)
    \/ \E today \in Todays : ApiGetUpcomingBirthdays(today)

SpecBook == InitBook /\ [][NextBook]_vars

----------------------------------------------------------------------------
(* Properties *)

\* a string of exactly 10 of the decimal digits 0-9
ValidPhone(s) == Len(s) = 10 /\ \A i \in 1..10 : IsAsciiDigit(s[i])

\* the record of that name in a book
RecordOf(book, name) == book[CHOOSE i \in 1..Len(book) : book[i].name = name]

Range(s) == {s[i] : i \in 1..Len(s)}

\* the first position of v in s, v being in s
FirstPos(s, v) == CHOOSE i \in 1..Len(s) : s[i] = v /\ \A j \in 1..(i - 1) : s[j] # v

\* the days of the window today .. today + 7 on which a birthday b occurs
Occurrences(b, today) ==
    {t \in {AddDays(today, k) : k \in 0..7} : t.month = b.month /\ t.day = b.day}

\* the names get_upcoming_birthdays is to return: the records with a
\* birthday whose next occurrence is in the window
Upcoming(book, today) ==
    {book[i].name : i \in {j \in 1..Len(book) :
        book[j].birthday # None /\ Occurrences(book[j].birthday, today) # {}}}

\* the entries of the last result for a name
EntriesFor(name) == {k \in 1..Len(last.ret.items) : last.ret.items[k].name = name}

HasFeb29(book) ==
    \E i \in 1..Len(book) : book[i].birthday.month = 2 /\ book[i].birthday.day = 29

\* C1: get_upcoming_birthdays returns exactly one entry for each record
\* whose birthday next occurs within today .. today + 7 days, and no entry
\* for any other record, for every book and every today.
C1_Claim ==
    last.op = "get_upcoming_birthdays" =>
        /\ last.exc = NoExc
        /\ \A name \in Upcoming(last.pre, last.today) : Cardinality(EntriesFor(name)) = 1
        /\ \A k \in 1..Len(last.ret.items) :
              last.ret.items[k].name \in Upcoming(last.pre, last.today)

\* the same of the calls that return
C1_WhenReturning ==
    (last.op = "get_upcoming_birthdays" /\ last.exc = NoExc) =>
        /\ \A name \in Upcoming(last.pre, last.today) : Cardinality(EntriesFor(name)) = 1
        /\ \A k \in 1..Len(last.ret.items) :
              last.ret.items[k].name \in Upcoming(last.pre, last.today)

\* the date an occurrence is to be congratulated on
ShiftedOccurrence(t) ==
    IF Weekday(t) \in 0..4 THEN t
    ELSE IF Weekday(t) = 5 THEN AddDays(t, 2)
    ELSE AddDays(t, 1)

\* C2: every entry returned by get_upcoming_birthdays carries the birthday's
\* occurrence in the window when that is a weekday, the occurrence + 2 days
\* when it is a Saturday and + 1 day when it is a Sunday, so that no
\* congratulation date is a Saturday or a Sunday.
C2_WeekendShift ==
    (last.op = "get_upcoming_birthdays" /\ last.exc = NoExc) =>
        \A k \in 1..Len(last.ret.items) :
            LET e == last.ret.items[k]
                b == RecordOf(last.pre, e.name).birthday
            IN  /\ \E t \in Occurrences(b, last.today) :
                      e.congratulation_date = strftime(ShiftedOccurrence(t))
                /\ StrptimeOk(e.congratulation_date)
                /\ Weekday(strptime(e.congratulation_date)) \notin {5, 6}

\* a returned entry for a birthday that falls on a Saturday
C2_Witness ==
    /\ last.op = "get_upcoming_birthdays"
    /\ last.exc = NoExc
    /\ \E k \in 1..Len(last.ret.items) :
          \E t \in Occurrences(RecordOf(last.pre, last.ret.items[k].name).birthday, last.today) :
              Weekday(t) = 5

\* C3: get_upcoming_birthdays returns a list, and raises nothing, for every
\* book holding a record with a birthday on 29 February, for every today.
C3_Claim ==
    (last.op = "get_upcoming_birthdays" /\ HasFeb29(last.pre)) => last.exc = NoExc

\* C4: edit_phone(old, new) replaces the first phone equal to old by new and
\* leaves every other position as it was when old is stored and new is a
\* valid phone; it fails with not-found when old is not stored, with a
\* validation error when old is stored and new is malformed, and leaves the
\* phones unchanged in both failures.
C4_Claim ==
    last.op = "edit_phone" =>
        LET before == RecordOf(last.pre, last.args[1]).phones
            after == RecordOf(data, last.args[1]).phones
            old == last.args[2]
            new == last.args[3]
        IN  IF old \notin Range(before)
            THEN last.exc = ValueError(PhoneNotFoundMsg) /\ after = before
            ELSE IF ~ValidPhone(new)
            THEN last.exc = ValueError(PhoneFormatMsg) /\ after = before
            ELSE /\ last.exc = NoExc
                 /\ Len(after) = Len(before)
                 /\ \A i \in 1..Len(before) :
                       after[i] = IF i = FirstPos(before, old) THEN new ELSE before[i]

\* C5: remove_phone(phone) removes exactly the first stored phone equal to
\* phone and keeps the others in their order; when no stored phone equals
\* phone it fails with not-found and the phones are unchanged.
C5_RemoveFirst ==
    last.op = "remove_phone" =>
        LET before == RecordOf(last.pre, last.args[1]).phones
            after == RecordOf(data, last.args[1]).phones
            phone == last.args[2]
        IN  IF phone \notin Range(before)
            THEN last.exc = ValueError(PhoneNotFoundMsg) /\ after = before
            ELSE /\ last.exc = NoExc
                 /\ Len(after) = Len(before) - 1
                 /\ \A i \in 1..Len(after) :
                       after[i] = IF i < FirstPos(before, phone) THEN before[i]
                                  ELSE before[i + 1]

\* a removal from a record that held the phone twice, with another phone
\* between the two
C5_Witness ==
    /\ last.op = "remove_phone"
    /\ last.exc = NoExc
    /\ LET before == RecordOf(last.pre, last.args[1]).phones
       IN  /\ Len(before) = 3
           /\ before[1] = last.args[2]
           /\ before[3] = last.args[2]
           /\ before[2] # last.args[2]

\* C6: every phone stored in every record is a string of exactly 10 decimal
\* digits 0-9, add_phone and edit_phone failing with a validation error for
\* every other string.
C6_Claim ==
    /\ \A i \in 1..Len(data) : \A k \in 1..Len(data[i].phones) :
          ValidPhone(data[i].phones[k])
    /\ (last.op = "add_phone" /\ ~ValidPhone(last.args[2])) =>
          last.exc = ValueError(PhoneFormatMsg)

\* C7: delete(name) never raises; it leaves the book unchanged when name is
\* not a key, and otherwise removes that entry and leaves every other entry
\* unchanged.
C7_Delete ==
    last.op = "delete" =>
        LET name == last.args[1]
        IN  /\ last.exc = NoExc
            /\ name \notin Keys(last.pre) => data = last.pre
            /\ name \in Keys(last.pre) =>
                  /\ Keys(data) = Keys(last.pre) \ {name}
                  /\ Len(data) = Len(last.pre) - 1
                  /\ \A other \in Keys(data) : RecordOf(data, other) = RecordOf(last.pre, other)

\* a delete of a name that is not a key of a book that holds a record
C7_Witness ==
    /\ last.op = "delete"
    /\ last.args[1] \notin Keys(last.pre)
    /\ Len(last.pre) > 0
    /\ Len(data) > 0

HandlerOps == {"add", "change", "phone", "add-birthday", "show-birthday", "birthdays"}

\* C8: every command handler returns a message and lets no exception
\* through, so that main() goes on to the next command and only close ends
\* the session.
C8_Recoverable ==
    /\ session # "crashed"
    /\ session = "closed" => last.op = "close"
    /\ last.op \in HandlerOps => (last.exc = NoExc /\ last.ret.text # "")

\* a handler that raised KeyError for an unknown contact and returned the
\* message for it
C8_Witness ==
    /\ last.op \in HandlerOps
    /\ last.raised.type = "KeyError"
    /\ last.ret = Message(ContactNotFoundMsg)
    /\ session = "running"

\* the number of arguments a handler requires
Required(op) ==
    IF op \in {"add", "add-birthday"} THEN 2
    ELSE IF op = "change" THEN 3
    ELSE IF op \in {"phone", "show-birthday"} THEN 1
    ELSE 0

\* C9: a handler given fewer arguments than it requires returns the
\* insufficient-arguments message and leaves the book unchanged.
C9_Claim ==
    (last.op \in HandlerOps /\ Len(last.args) < Required(last.op)) =>
        /\ last.ret = Message(NotEnoughArgsMsg)
        /\ data = last.pre

SuccessTexts == {"Contact added.", "Contact updated.", "Birthday added."}

\* C10: add, change and add-birthday leave the book as it was whenever they
\* return an error message instead of their success message.
C10_Claim ==
    (last.op \in {"add", "change", "add-birthday"} /\ last.ret.text \notin SuccessTexts) =>
        data = last.pre

====
